---- MODULE Spec2Model ----
(***************************************************************************)
(* Model of crates/openfang-runtime/src/workspace_sandbox.rs:              *)
(* resolve_sandbox_path(user_path, workspace_root) on a Unix filesystem.   *)
(*                                                                         *)
(* A path string is the sequence of its '/'-separated segments, a segment  *)
(* is the sequence of its characters:                                      *)
(*     ""        is  << <<>> >>                                            *)
(*     "/"       is  << <<>>, <<>> >>                                      *)
(*     "/w/d"    is  << <<>>, <<"w">>, <<"d">> >>                          *)
(*     "d//f/"   is  << <<"d">>, <<>>, <<"f">>, <<>> >>                    *)
(* Splitting on '/' is a bijection between strings and non-empty segment   *)
(* sequences, so nothing of the string is lost.                            *)
(***************************************************************************)
EXTENDS Naturals, Sequences, FiniteSets

VARIABLES fs, user_path, workspace_root, pc, canon_root, cand_exists, result

vars == <<fs, user_path, workspace_root, pc, canon_root, cand_exists, result>>

(***************************************************************************)
(* Bounds of the model.                                                    *)
(***************************************************************************)
\* longest user_path, in segments after the optional leading '/'
MaxSegs == 3
\* symlinks followed in one lookup before it fails with ELOOP (40 on Linux,
\* for stat(2) and realpath(3) alike); more than a user_path of MaxSegs
\* segments can pass, so that only a symlink loop exhausts them
MaxSymlinks == 4

(***************************************************************************)
(* Segments and the names used in the filesystem.                          *)
(***************************************************************************)
E == <<>>
Dot == <<".">>
DotDot == <<".", ".">>
W == <<"w">>
WS == <<"w", "s">>
D == <<"d">>
F == <<"f">>

None == [kind |-> "none"]
Dir == [kind |-> "dir"]
File == [kind |-> "file"]
Link(t) == [kind |-> "link", target |-> t]

\* the entries the environment may create, by canonical location: the
\* workspace /w with d and f in it, and its sibling /ws with f in it
Slots == {<<W>>, <<W, D>>, <<W, D, F>>, <<W, F>>, <<WS>>, <<WS, F>>}

\* what may be created where: /w/d a directory, a file, or a symlink to the
\* outside directory /ws, to /w or to itself; /w/f a file or a symlink to
\* the outside file /ws/f.  A symlink dangles while its target is missing.
Allowed(p) ==
  CASE p = <<W>> -> {Dir}
    [] p = <<W, D>> -> {Dir, File, Link(<<E, WS>>), Link(<<E, W>>),
                        Link(<<E, W, D>>)}
    [] p = <<W, D, F>> -> {File}
    [] p = <<W, F>> -> {File, Link(<<E, WS, F>>)}
    [] p = <<WS>> -> {Dir}
    [] p = <<WS, F>> -> {File}

\* workspace_root as the caller passes it: /w, or /w/d (which may be a
\* symlink, so that its canonical form differs)
Roots == {<<E, W>>, <<E, W, D>>}

\* user_path: up to MaxSegs segments out of "", ".", "..", "d", "f", taken
\* as they are (relative, or absolute when the first is empty) or put
\* after "/", "/w/" or "/ws/"
TailSegs == {E, Dot, DotDot, D, F}

Prefixes == {<<>>, <<E>>, <<E, W>>, <<E, WS>>}

SeqsUpTo(n) == UNION {[1..k -> TailSegs] : k \in 1..n}

UserPaths == {pre \o s : pre \in Prefixes, s \in SeqsUpTo(MaxSegs)}

(***************************************************************************)
(* std::path on Unix.                                                      *)
(***************************************************************************)
Front(s) == SubSeq(s, 1, Len(s) - 1)
Last(s) == s[Len(s)]

IsPrefix(a, b) == Len(a) <= Len(b) /\ SubSeq(b, 1, Len(a)) = a

\* Path::has_root / Path::is_absolute: the string starts with '/'
is_absolute(s) == Len(s) >= 2 /\ s[1] = E

RootDir == [kind |-> "RootDir"]
CurDir == [kind |-> "CurDir"]
ParentDir == [kind |-> "ParentDir"]
Normal(n) == [kind |-> "Normal", name |-> n]

\* Components::include_cur_dir: a leading "." of a relative path
include_cur_dir(s) == ~is_absolute(s) /\ s[1] = Dot

\* Components::parse_single_component, with the leading CurDir: TRUE when
\* segment i of s yields no component
Skipped(s, i) ==
  \/ s[i] = E
  \/ s[i] = Dot /\ ~(i = 1 /\ include_cur_dir(s))

ComponentAt(s, i) ==
  IF s[i] = Dot THEN CurDir
  ELSE IF s[i] = DotDot THEN ParentDir
  ELSE Normal(s[i])

RECURSIVE BodyFrom(_, _)
BodyFrom(s, i) ==
  IF i > Len(s) THEN <<>>
  ELSE IF Skipped(s, i) THEN BodyFrom(s, i + 1)
  ELSE <<ComponentAt(s, i)>> \o BodyFrom(s, i + 1)

\* Path::components
components(s) ==
  (IF is_absolute(s) THEN <<RootDir>> ELSE <<>>) \o BodyFrom(s, 1)

\* index of the last segment at or before i that yields a component, 0 if none
RECURSIVE LastKept(_, _)
LastKept(s, i) ==
  IF i = 0 THEN 0
  ELSE IF Skipped(s, i) THEN LastKept(s, i - 1)
  ELSE i

NoPath == [some |-> FALSE]
Some(p) == [some |-> TRUE, path |-> p]

\* Path::parent: None for "/" and "", else the string up to the component
\* before the last one (Components::next_back, then as_path's trim_right)
parent(s) ==
  LET j == LastKept(s, Len(s))
      k == LastKept(s, j - 1)
  IN  IF j = 0 THEN NoPath
      ELSE IF k = 0 THEN Some(IF is_absolute(s) THEN <<E, E>> ELSE <<E>>)
      ELSE Some(SubSeq(s, 1, k))

\* Path::file_name: the last component when it is a Normal one
file_name(s) ==
  LET j == LastKept(s, Len(s))
  IN  IF j = 0 \/ ComponentAt(s, j).kind # "Normal" THEN NoPath
      ELSE Some(<<s[j]>>)

\* Path::join (PathBuf::push): an absolute path replaces the base, else a
\* separator is added unless the base is empty or ends with one
join(base, path) ==
  IF is_absolute(path) THEN path
  ELSE IF Last(base) # E THEN base \o path
  ELSE Front(base) \o path

\* the characters of a path string
RECURSIVE Chars(_)
Chars(s) ==
  IF Len(s) = 1 THEN s[1]
  ELSE s[1] \o <<"/">> \o Chars(Tail(s))

\* containment decided on the strings: str::starts_with
starts_with_str(p, base) == IsPrefix(Chars(base), Chars(p))

\* Path::starts_with: whole components, never a part of one
starts_with(p, base) == IsPrefix(components(base), components(p))

(***************************************************************************)
(* The filesystem: path lookup as the kernel does it for stat(2) and       *)
(* realpath(3).  An entry is named by its canonical location, the sequence *)
(* of names from "/"; "/" itself is the empty sequence and always a        *)
(* directory.                                                              *)
(***************************************************************************)
KindAt(f, p) ==
  IF p = <<>> THEN "dir"
  ELSE IF p \in DOMAIN f THEN f[p].kind
  ELSE "none"

Failed(e) == [ok |-> FALSE, err |-> e]
Found(p) == [ok |-> TRUE, path |-> p]

\* cur is an entry that exists and is no symlink, rest the segments still to
\* look up, n the symlinks that may still be followed
RECURSIVE Walk(_, _, _, _)
Walk(f, cur, rest, n) ==
  IF rest = <<>> THEN Found(cur)
  ELSE IF KindAt(f, cur) # "dir" THEN Failed("ENOTDIR")
  ELSE LET seg == Head(rest)
           child == cur \o <<seg>>
       IN  IF seg = E \/ seg = Dot THEN Walk(f, cur, Tail(rest), n)
           ELSE IF seg = DotDot
             THEN Walk(f, IF cur = <<>> THEN cur ELSE Front(cur), Tail(rest), n)
           ELSE IF KindAt(f, child) = "none" THEN Failed("ENOENT")
           ELSE IF KindAt(f, child) = "link"
             THEN IF n = 0 THEN Failed("ELOOP")
                  ELSE Walk(f,
                            IF is_absolute(f[child].target) THEN <<>> ELSE cur,
                            f[child].target \o Tail(rest), n - 1)
           ELSE Walk(f, child, Tail(rest), n)

\* lookup of a path string, following every symlink.  workspace_root is
\* absolute, hence so is every path the function looks up; the empty string
\* is ENOENT
Lookup(f, s) ==
  IF ~is_absolute(s) THEN Failed("ENOENT")
  ELSE Walk(f, <<>>, s, MaxSymlinks)

\* Path::exists: fs::metadata(path).is_ok()
exists(f, s) == Lookup(f, s).ok

\* the canonical path string of an entry
PathOf(p) == IF p = <<>> THEN <<E, E>> ELSE <<E>> \o p

\* Path::canonicalize: realpath(3)
canonicalize(f, s) ==
  LET r == Lookup(f, s)
  IN  IF r.ok THEN Found(PathOf(r.path)) ELSE r

(***************************************************************************)
(* resolve_sandbox_path.  An outcome is Ok(path) or Err(message), the      *)
(* message being the fixed text the code's message starts with.            *)
(***************************************************************************)
Ok(p) == [ok |-> TRUE, path |-> p]
Err(m) == [ok |-> FALSE, err |-> m]

TraversalDenied == "Path traversal denied"
RootFailure == "Failed to resolve workspace root"
PathFailure == "Failed to resolve path"
NoParent == "Invalid path: no parent directory"
NoFilename == "Invalid path: no filename"
ParentFailure == "Failed to resolve parent directory"
AccessDenied == "Access denied"

\* lines 19-23: some component of user_path is `..`
HasParentDir(u) ==
  \E i \in 1..Len(components(u)) : components(u)[i] = ParentDir

\* an absolute user_path joined below the root like a relative one
Candidate_AlwaysJoin(u, root) == root \o u

\* only the file name of a relative user_path joined
Candidate_FileNameOnly(u, root) ==
  IF is_absolute(u) \/ ~file_name(u).some THEN join(root, u)
  ELSE join(root, file_name(u).path)

\* lines 26-30
Candidate(u, root) == IF is_absolute(u) THEN u ELSE join(root, u)

\* the new file appended to the parent as given, not to its canonical form
CanonCandidate_RawParent(f, cand, found) ==
  IF found
    THEN LET c == canonicalize(f, cand)
         IN  IF c.ok THEN Ok(c.path) ELSE Err(PathFailure)
    ELSE LET par == parent(cand)
             name == file_name(cand)
         IN  IF ~par.some THEN Err(NoParent)
             ELSE IF ~name.some THEN Err(NoFilename)
             ELSE IF ~canonicalize(f, par.path).ok THEN Err(ParentFailure)
             ELSE Ok(join(par.path, name.path))

\* a missing parent accepted, the path taken as written
CanonCandidate_DeepCreate(f, cand, found) ==
  IF found
    THEN LET c == canonicalize(f, cand)
         IN  IF c.ok THEN Ok(c.path) ELSE Err(PathFailure)
    ELSE LET par == parent(cand)
             name == file_name(cand)
         IN  IF ~par.some THEN Err(NoParent)
             ELSE IF ~name.some THEN Err(NoFilename)
             ELSE LET cp == canonicalize(f, par.path)
                  IN  IF ~cp.ok THEN Ok(join(par.path, name.path))
                      ELSE Ok(join(cp.path, name.path))

\* lines 38-54 on filesystem f, `found` being what candidate.exists() said
CanonCandidate(f, cand, found) ==
  IF found
    THEN LET c == canonicalize(f, cand)
         IN  IF c.ok THEN Ok(c.path) ELSE Err(PathFailure)
    ELSE LET par == parent(cand)
             name == file_name(cand)
         IN  IF ~par.some THEN Err(NoParent)
             ELSE IF ~name.some THEN Err(NoFilename)
             ELSE LET cp == canonicalize(f, par.path)
                  IN  IF ~cp.ok THEN Err(ParentFailure)
                      ELSE Ok(join(cp.path, name.path))

\* the containment check left out
Contained_NoCheck(c, root, u) == c

\* lines 57-68
Contained(c, root, u) ==
  IF ~c.ok THEN c
  ELSE IF ~starts_with(c.path, root) THEN Err(AccessDenied)
  ELSE Ok(c.path)

\* lines 37-68, from the canonical root and the answer of exists()
Finish(f, root, found, u, wr) ==
  Contained(CanonCandidate(f, Candidate(u, wr), found), root, u)

\* the workspace root canonicalized before the `..` check
Resolve3_RootFirst(f1, f2, f3, u, wr) ==
  LET cr == canonicalize(f1, wr)
  IN  IF ~cr.ok THEN Err(RootFailure)
      ELSE IF HasParentDir(u) THEN Err(TraversalDenied)
      ELSE Finish(f3, cr.path, exists(f2, Candidate(u, wr)), u, wr)

\* the whole function; f1, f2, f3 are the filesystem as it is when the root
\* is canonicalized, when exists() runs and when the candidate (or its
\* parent) is canonicalized
Resolve3(f1, f2, f3, u, wr) ==
  IF HasParentDir(u) THEN Err(TraversalDenied)
  ELSE LET cr == canonicalize(f1, wr)
       IN  IF ~cr.ok THEN Err(RootFailure)
           ELSE Finish(f3, cr.path, exists(f2, Candidate(u, wr)), u, wr)

\* a call during which the filesystem does not change
resolve_sandbox_path(f, u, wr) == Resolve3(f, f, f, u, wr)

(***************************************************************************)
(* State.  fs is the filesystem; the other variables are the call in       *)
(* progress, or the call that has just returned.                           *)
(***************************************************************************)
NoCall == <<>>
NoResult == Err("")

Init ==
  /\ fs = [p \in Slots |-> None]
  /\ user_path = NoCall
  /\ workspace_root = NoCall
  /\ pc = "idle"
  /\ canon_root = NoResult
  /\ cand_exists = FALSE
  /\ result = NoResult

CallVars == <<user_path, workspace_root, pc, canon_root, cand_exists, result>>

HasChild(f, p) ==
  \E q \in Slots : Len(q) = Len(p) + 1 /\ Front(q) = p /\ f[q].kind # "none"

\* mkdir, write or symlink by anyone: a new entry in an existing directory
Create(p, e) ==
  /\ pc # "done"
  /\ fs[p].kind = "none"
  /\ KindAt(fs, Front(p)) = "dir"
  /\ fs' = [fs EXCEPT ![p] = e]
  /\ UNCHANGED CallVars

\* unlink or rmdir by anyone
Remove(p) ==
  /\ pc # "done"
  /\ fs[p].kind # "none"
  /\ ~HasChild(fs, p)
  /\ fs' = [fs EXCEPT ![p] = None]
  /\ UNCHANGED CallVars

\* one call of resolve_sandbox_path, the filesystem unchanged meanwhile
Resolve(u, wr) ==
  /\ pc = "idle"
  /\ user_path' = u
  /\ workspace_root' = wr
  /\ result' = resolve_sandbox_path(fs, u, wr)
  /\ pc' = "done"
  /\ UNCHANGED <<fs, canon_root, cand_exists>>

\* the caller has taken the outcome
Return ==
  /\ pc = "done"
  /\ pc' = "idle"
  /\ user_path' = NoCall
  /\ workspace_root' = NoCall
  /\ canon_root' = NoResult
  /\ cand_exists' = FALSE
  /\ result' = NoResult
  /\ UNCHANGED fs

Next ==
  \/ pc # "done" /\ \E p \in Slots : \E e \in Allowed(p) : Create(p, e)
  \/ pc # "done" /\ \E p \in Slots : Remove(p)
  \/ pc = "idle" /\ \E u \in UserPaths : \E wr \in Roots : Resolve(u, wr)
  \/ Return

Spec == Init /\ [][Next]_vars

(***************************************************************************)
(* The same call, one filesystem access at a time, anyone else creating    *)
(* and removing entries in between.                                        *)
(***************************************************************************)
\* lines 16-30: the `..` check and the candidate, no filesystem access
Call(u, wr) ==
  /\ pc = "idle"
  /\ user_path' = u
  /\ workspace_root' = wr
  /\ IF HasParentDir(u)
       THEN result' = Err(TraversalDenied) /\ pc' = "done"
       ELSE result' = result /\ pc' = "root"
  /\ UNCHANGED <<fs, canon_root, cand_exists>>

\* lines 33-35: workspace_root.canonicalize()
CanonicalizeRoot ==
  /\ pc = "root"
  /\ canon_root' = canonicalize(fs, workspace_root)
  /\ IF canon_root'.ok
       THEN result' = result /\ pc' = "exists"
       ELSE result' = Err(RootFailure) /\ pc' = "done"
  /\ UNCHANGED <<fs, user_path, workspace_root, cand_exists>>

\* line 38: candidate.exists()
CheckExists ==
  /\ pc = "exists"
  /\ cand_exists' = exists(fs, Candidate(user_path, workspace_root))
  /\ pc' = "canon"
  /\ UNCHANGED <<fs, user_path, workspace_root, canon_root, result>>

\* lines 39-68: canonicalize the candidate or its parent, then the
\* containment check
CanonicalizeCandidate ==
  /\ pc = "canon"
  /\ result' = Finish(fs, canon_root.path, cand_exists, user_path, workspace_root)
  /\ pc' = "done"
  /\ UNCHANGED <<fs, user_path, workspace_root, canon_root, cand_exists>>

NextRace ==
  \/ pc # "done" /\ \E p \in Slots : \E e \in Allowed(p) : Create(p, e)
  \/ pc # "done" /\ \E p \in Slots : Remove(p)
  \/ pc = "idle" /\ \E u \in UserPaths : \E wr \in Roots : Call(u, wr)
  \/ CanonicalizeRoot
  \/ CheckExists
  \/ CanonicalizeCandidate
  \/ Return

SpecRace == Init /\ [][NextRace]_vars

(***************************************************************************)
(* Notions the properties are stated with.                                 *)
(***************************************************************************)
Done == pc = "done"

\* the input as a string has a `..` segment
HasDotDotSegment(u) == \E i \in 1..Len(u) : u[i] = DotDot

\* canonical(workspace_root) on the filesystem of the state
CanonRoot == canonicalize(fs, workspace_root)

\* the named segments of a path string, in order
Names(s) == SelectSeq(s, LAMBDA seg : seg # E /\ seg # Dot)

\* p lies in base or is base, by whole names
Within(p, base) == IsPrefix(Names(base), Names(p))

(***************************************************************************)
(* C1.  Whenever resolve_sandbox_path returns Ok(p), the components of     *)
(* canonical(workspace_root) are a prefix of (or equal to) those of p.     *)
(***************************************************************************)
C1_OkInsideRoot ==
  (Done /\ result.ok) =>
    /\ CanonRoot.ok
    /\ Within(result.path, CanonRoot.path)

\* a success strictly below the root, for an input that is absolute
C1_Witness ==
  /\ Done /\ result.ok
  /\ is_absolute(user_path)
  /\ result.path # CanonRoot.path

(***************************************************************************)
(* C2.  Every input with a `..` segment fails with "Path traversal         *)
(* denied", whether its target exists or not and even when the workspace   *)
(* root is missing.                                                        *)
(***************************************************************************)
C2_DotDotDenied ==
  (Done /\ HasDotDotSegment(user_path)) => result = Err(TraversalDenied)

\* a `..` input under a workspace root that does not exist
C2_Witness ==
  /\ Done /\ HasDotDotSegment(user_path)
  /\ ~CanonRoot.ok
  /\ result = Err(TraversalDenied)

(***************************************************************************)
(* C3.  A symlink located inside the workspace whose target lies outside   *)
(* it, existing or not: resolving the symlinked entry, or a path through   *)
(* it, fails with "Access denied" and never succeeds.  (Inputs with `..`   *)
(* are left to C2.)                                                        *)
(***************************************************************************)
\* the candidate names the symlink at p, or passes through it; p is in the
\* workspace and its target is not
EscapesThrough(p) ==
  /\ fs[p].kind = "link"
  /\ Within(PathOf(p), CanonRoot.path)
  /\ ~Within(fs[p].target, CanonRoot.path)
  /\ Within(Candidate(user_path, workspace_root), PathOf(p))

C3_SymlinkEscapeDenied ==
  (/\ Done /\ ~HasDotDotSegment(user_path)
   /\ CanonRoot.ok
   /\ \E p \in Slots : EscapesThrough(p))
    => result = Err(AccessDenied)

(***************************************************************************)
(* C4.  An absolute input whose canonical form lies outside                *)
(* canonical(workspace_root) fails with "Access denied", also when its     *)
(* string starts with the string of the root.                              *)
(***************************************************************************)
AbsoluteOutside ==
  /\ Done /\ is_absolute(user_path)
  /\ CanonRoot.ok
  /\ canonicalize(fs, user_path).ok
  /\ ~Within(canonicalize(fs, user_path).path, CanonRoot.path)

\* C4 as claimed: for all absolute inputs
C4_AbsoluteOutsideDenied_AsClaimed ==
  AbsoluteOutside => result = Err(AccessDenied)

\* C4 as amended: for all absolute inputs without a `..` segment
C4_AbsoluteOutsideDenied ==
  (AbsoluteOutside /\ ~HasDotDotSegment(user_path))
    => result = Err(AccessDenied)

\* the root /w and an existing input under /ws: a shared string prefix
C4_Witness ==
  /\ AbsoluteOutside /\ ~HasDotDotSegment(user_path)
  /\ IsPrefix(Chars(CanonRoot.path), Chars(canonicalize(fs, user_path).path))
  /\ result = Err(AccessDenied)

(***************************************************************************)
(* C5.  An absolute input whose canonical form lies within                 *)
(* canonical(workspace_root) is resolved successfully.                     *)
(***************************************************************************)
AbsoluteInside ==
  /\ Done /\ is_absolute(user_path)
  /\ CanonRoot.ok
  /\ canonicalize(fs, user_path).ok
  /\ Within(canonicalize(fs, user_path).path, CanonRoot.path)

\* C5 as claimed: for all absolute inputs
C5_AbsoluteInsideOk_AsClaimed == AbsoluteInside => result.ok

\* C5 as amended: for all absolute inputs without a `..` segment
C5_AbsoluteInsideOk ==
  (AbsoluteInside /\ ~HasDotDotSegment(user_path)) => result.ok

\* an absolute input that reaches the workspace through a symlink
C5_Witness ==
  /\ AbsoluteInside /\ ~HasDotDotSegment(user_path)
  /\ result.ok
  /\ result.path # CanonRoot.path
  /\ Names(result.path) # Names(user_path)

(***************************************************************************)
(* C6.  A relative input without `..` that is resolved successfully is     *)
(* resolved to canonical(workspace_root) joined with the input, when that  *)
(* joined path exists within the workspace.                                *)
(***************************************************************************)
\* canonical(workspace_root) joined with the input
Joined == join(CanonRoot.path, user_path)

RelativeExisting ==
  /\ Done /\ ~is_absolute(user_path) /\ ~HasDotDotSegment(user_path)
  /\ result.ok
  /\ canonicalize(fs, Joined).ok
  /\ Within(canonicalize(fs, Joined).path, CanonRoot.path)

\* no entry on the way along s is a symlink
NoSymlinkOn(s) ==
  \A k \in 1..Len(Names(s)) : KindAt(fs, SubSeq(Names(s), 1, k)) # "link"

\* C6 as claimed: whenever the joined path exists within the workspace
C6_RelativeIsJoined_AsClaimed ==
  RelativeExisting => components(result.path) = components(Joined)

\* C6 as amended: whenever the joined path exists within the workspace and
\* no entry on it is a symlink
C6_RelativeIsJoined ==
  (RelativeExisting /\ NoSymlinkOn(Joined))
    => components(result.path) = components(Joined)

\* data/test.txt as in the spec's scenario: two names below the root
C6_Witness ==
  /\ RelativeExisting /\ NoSymlinkOn(Joined)
  /\ Len(Names(user_path)) = 2
  /\ result.path = CanonRoot.path \o Names(user_path)

(***************************************************************************)
(* C7.  Idempotence: on an unchanged filesystem, when                      *)
(* resolve_sandbox_path(user_path, root) returns Ok(p), then               *)
(* resolve_sandbox_path(p, root) returns Ok(p).                            *)
(***************************************************************************)
C7_Idempotent ==
  (Done /\ result.ok)
    => resolve_sandbox_path(fs, result.path, workspace_root) = result

(***************************************************************************)
(* C8.  New file: a path without `..` whose final segment does not exist   *)
(* but whose parent directory exists inside the workspace is resolved to   *)
(* the canonical path of the parent joined with the literal final segment. *)
(***************************************************************************)
\* the absolute path s up to its last named segment but one: the string of
\* its parent directory
ParentString(s) ==
  LET n == Len(Names(s))
      at == CHOOSE i \in 1..Len(s) :
              /\ s[i] # E /\ s[i] # Dot
              /\ Len(Names(SubSeq(s, 1, i))) = n - 1
  IN  IF n = 1 THEN <<E, E>> ELSE SubSeq(s, 1, at)

NewFileCase ==
  LET cand == Candidate(user_path, workspace_root)
  IN  /\ Done /\ ~HasDotDotSegment(user_path)
      /\ CanonRoot.ok
      /\ ~exists(fs, cand)
      /\ Names(cand) # <<>>
      /\ canonicalize(fs, ParentString(cand)).ok
      /\ KindAt(fs, Names(canonicalize(fs, ParentString(cand)).path)) = "dir"
      /\ Within(canonicalize(fs, ParentString(cand)).path, CanonRoot.path)

C8_NewFile ==
  NewFileCase =>
    LET cand == Candidate(user_path, workspace_root)
    IN  result = Ok(<<E>> \o Names(canonicalize(fs, ParentString(cand)).path)
                         \o <<Last(Names(cand))>>)

\* a new file in a directory that is reached through a symlink
C8_Witness ==
  /\ NewFileCase /\ result.ok
  /\ Front(Names(result.path))
       # Front(Names(Candidate(user_path, workspace_root)))

(***************************************************************************)
(* C9.  Missing parent: a path whose parent directory does not exist fails *)
(* with "Failed to resolve parent directory", never with a success or      *)
(* another rejection, however many levels are missing.                     *)
(***************************************************************************)
MissingParent ==
  LET cand == Candidate(user_path, workspace_root)
  IN  /\ Done
      /\ Names(cand) # <<>>
      /\ ~exists(fs, ParentString(cand))

\* C9 as claimed: for every path and every workspace root
C9_MissingParent_AsClaimed == MissingParent => result = Err(ParentFailure)

\* C9 as amended: for a path without `..` under a workspace root that
\* resolves
C9_MissingParent ==
  (MissingParent /\ ~HasDotDotSegment(user_path) /\ CanonRoot.ok)
    => result = Err(ParentFailure)

\* a/b/c.txt with a missing: the parent of the parent is missing as well
C9_Witness ==
  LET cand == Candidate(user_path, workspace_root)
  IN  /\ MissingParent /\ ~HasDotDotSegment(user_path) /\ CanonRoot.ok
      /\ Len(Names(cand)) >= 2
      /\ ~exists(fs, ParentString(ParentString(cand)))
      /\ result = Err(ParentFailure)

(***************************************************************************)
(* C10.  Every call ends in one resolved path or in a rejection of the     *)
(* five kinds (traversal denied, root resolution, parent resolution,       *)
(* invalid path, access denied), also when the filesystem changes between  *)
(* exists() and the canonicalization of the candidate.                     *)
(***************************************************************************)
Taxonomy ==
  {TraversalDenied, RootFailure, ParentFailure, NoParent, NoFilename, AccessDenied}

C10_FiveKinds == Done => (result.ok \/ result.err \in Taxonomy)

====
